---- MODULE Spec2Model ----
(***************************************************************************)
(* Shift indexing and report-matrix construction of app.py.                *)
(*                                                                         *)
(* A Python str is a sequence of one-character strings, so that strip,     *)
(* replace and strptime are computed character by character.  A raw JSON   *)
(* value is a tagged record: None, Str(s) or Num(n).  A raw row (a dict)   *)
(* is a function from the field names it carries to raw values.            *)
(***************************************************************************)
EXTENDS Integers, Sequences, FiniteSets, TLC

VARIABLES rows, shiftDate, shiftName, station, v, shifts, report, normalized, returned

vars == <<rows, shiftDate, shiftName, station, v, shifts, report, normalized, returned>>

-----------------------------------------------------------------------------
(* Bounds *)

MaxRows == 3

MaxLen == 3

-----------------------------------------------------------------------------
(* Python values *)

None == [t |-> "none"]

Str(s) == [t |-> "str", s |-> s]

Num(n) == [t |-> "int", n |-> n]

Time(h, m) == [t |-> "time", hour |-> h, minute |-> m]

Date(y, m, d) == [t |-> "date", year |-> y, month |-> m, day |-> d]

Digits == <<"0", "1", "2", "3", "4", "5", "6", "7", "8", "9">>

IsDigit(c) == \E i \in 1..10 : Digits[i] = c

DigitVal(c) == (CHOOSE i \in 1..10 : Digits[i] = c) - 1

AllDigits(s) == \A i \in 1..Len(s) : IsDigit(s[i])

RECURSIVE NumVal(_)
NumVal(s) == IF s = <<>> THEN 0 ELSE 10 * NumVal(SubSeq(s, 1, Len(s) - 1)) + DigitVal(s[Len(s)])

RECURSIVE IntStr(_)
IntStr(n) == IF n < 10 THEN <<Digits[n + 1]>> ELSE IntStr(n \div 10) \o <<Digits[(n % 10) + 1]>>

\* str(x)
str(x) == IF x.t = "str" THEN x.s ELSE IF x.t = "int" THEN IntStr(x.n) ELSE <<"N", "o", "n", "e">>

\* truth value of x, as `x or ""` tests it
Truthy(x) == IF x.t = "none" THEN FALSE ELSE IF x.t = "str" THEN x.s # <<>> ELSE IF x.t = "int" THEN x.n # 0 ELSE TRUE

IsSpace(c) == c = " "

RECURSIVE lstrip(_)
lstrip(s) == IF s # <<>> /\ IsSpace(Head(s)) THEN lstrip(Tail(s)) ELSE s

RECURSIVE rstrip(_)
rstrip(s) == IF s # <<>> /\ IsSpace(s[Len(s)]) THEN rstrip(SubSeq(s, 1, Len(s) - 1)) ELSE s

\* s.strip()
strip(s) == rstrip(lstrip(s))

\* s.replace(old, new) for one-character old and new
replace(s, old, new) == [i \in 1..Len(s) |-> IF s[i] = old THEN new ELSE s[i]]

\* r.get(f)
get(r, f) == IF f \in DOMAIN r THEN r[f] ELSE None

\* str(r.get(f) or "").strip()
field(r, f) == LET x == get(r, f) IN strip(IF Truthy(x) THEN str(x) ELSE <<>>)

-----------------------------------------------------------------------------
(* CONFIG *)

ORDERED_ITEMS ==
  << <<"Θ","ε","ρ","μ","ο","κ","ρ","α","σ","ί","α"," ","λ","α","μ","ι","ν","α","τ","ο","ρ","ί","ο","υ"," ","(","°","C",")">>,
     <<"Ε","ί","δ","ο","ς"," ","μ","α","ρ","γ","α","ρ","ί","ν","η","ς">>,
     <<"Θ","ε","ρ","μ","ο","κ","ρ","α","σ","ί","α"," ","μ","α","ρ","γ","α","ρ","ί","ν","η","ς"," ","(","°","C",")">>,
     <<"Λ","α","μ","ά","κ","ι"," ","μ","α","ρ","γ","α","ρ","ί","ν","η","ς"," ","(","m","m",")">>,
     <<"Λ","α","μ","ά","κ","ι"," ","r","e","c","u","p","e","r","o"," ","(","m","m",")">>,
     <<"Δ","ι","ά","κ","ε","ν","ο"," ","μ","α","χ","α","ι","ρ","ι","ώ","ν"," ","(","c","m",")">>,
     <<"Π","ά","χ","ο","ς"," ","e","x","t","r","u","d","e","r"," ","(","1","η",")">>,
     <<"Π","ά","χ","ο","ς"," ","e","x","t","r","u","d","e","r"," ","(","2","η",")">>,
     <<"Π","ο","σ","ο","σ","τ","ό"," ","μ","α","ρ","γ","α","ρ","ί","ν","η","ς"," ","(","%",")">>,
     <<"Π","ο","σ","ο","σ","τ","ό"," ","α","ν","α","κ","ύ","κ","λ","ω","σ","η","ς"," ","ζ","ύ","μ","η","ς"," ","r","e","c","u","p","e","r","o"," ","(","%",")">> >>

ALLOWED_ITEMS == {ORDERED_ITEMS[i] : i \in 1..Len(ORDERED_ITEMS)}

SHIFT_START ==
  (<<"A">> :> <<"0","6",":","0","0">>) @@
  (<<"B">> :> <<"1","4",":","0","0">>) @@
  (<<"Γ">> :> <<"2","2",":","0","0">>)

-----------------------------------------------------------------------------
(* HELPERS *)

\* normalize_value without the decimal-comma replacement
normalize_value_keepcomma(x) ==
  IF x = None THEN <<>>
  ELSE LET s == strip(str(x)) IN
       IF s \in {<<"-">>, <<"N", "/", "A">>, <<"n", "/", "a">>} THEN <<>> ELSE s

normalize_value(x) ==
  IF x = None THEN <<>>
  ELSE LET s == strip(str(x)) IN
       IF s \in {<<"-">>, <<"N", "/", "A">>, <<"n", "/", "a">>} THEN <<>>
       ELSE replace(s, ",", ".")

\* datetime.strptime(s, "%H:%M").time(), None standing for ValueError:
\* %H is 2[0-3]|[0-1]\d|\d and %M is [0-5]\d|\d, and the whole of s must match
strptime_HM(s) ==
  LET ks == {k \in 2..3 : k < Len(s) /\ s[k] = ":" /\ AllDigits(SubSeq(s, 1, k - 1))} IN
  IF ks = {} THEN None
  ELSE LET k == CHOOSE k \in ks : TRUE
           h == SubSeq(s, 1, k - 1)
           m == SubSeq(s, k + 1, Len(s))
       IN IF Len(m) \in 1..2 /\ AllDigits(m) /\ NumVal(h) <= 23 /\ NumVal(m) <= 59
          THEN Time(NumVal(h), NumVal(m))
          ELSE None

parse_hhmm(s) == strptime_HM(strip(s))

minutes(t) == t.hour * 60 + t.minute

\* key without the shift start: plain minute of the day
key_nowrap(tstr, start_m) ==
  LET p == parse_hhmm(tstr)
      t == IF p # None THEN p ELSE Time(0, 0)
  IN minutes(t) % (24 * 60)

\* (m - start_m) % (24 * 60) of a time string, for the shift's start minute
key(tstr, start_m) ==
  LET p == parse_hhmm(tstr)
      t == IF p # None THEN p ELSE Time(0, 0)
  IN (minutes(t) - start_m) % (24 * 60)

\* sorted(xs, key=k): stable, ascending; k is a function on the elements
RECURSIVE sorted_asc(_, _)
sorted_asc(xs, k) ==
  IF xs = <<>> THEN <<>>
  ELSE LET out == sorted_asc(SubSeq(xs, 1, Len(xs) - 1), k)
           x == xs[Len(xs)]
           n == Cardinality({i \in 1..Len(out) : k[out[i]] <= k[x]})
       IN SubSeq(out, 1, n) \o <<x>> \o SubSeq(out, n + 1, Len(out))

sort_donetime_list(times, shift_name) ==
  LET start_str == IF shift_name \in DOMAIN SHIFT_START THEN SHIFT_START[shift_name] ELSE <<"0","0",":","0","0">>
      p == parse_hhmm(start_str)
      start_t == IF p # None THEN p ELSE Time(0, 0)
      start_m == minutes(start_t)
  IN sorted_asc(times, [x \in {times[i] : i \in 1..Len(times)} |-> key(x, start_m)])

-----------------------------------------------------------------------------
(* DATA PROCESSING: build_shift_index *)

IsLeap(y) == (y % 4 = 0 /\ y % 100 # 0) \/ y % 400 = 0

DaysInMonth(y, m) ==
  IF m = 2 THEN (IF IsLeap(y) THEN 29 ELSE 28)
  ELSE IF m \in {4, 6, 9, 11} THEN 30 ELSE 31

\* datetime.strptime(s, "%Y-%m-%d").date(), None standing for ValueError:
\* %Y is \d\d\d\d, %m is 1[0-2]|0[1-9]|[1-9], %d is 3[01]|[12]\d|0[1-9]|[1-9]| [1-9],
\* the whole of s must match and the date must exist
strptime_Ymd(s) ==
  LET ks == {k \in 7..8 : k < Len(s) /\ s[k] = "-" /\ AllDigits(SubSeq(s, 6, k - 1))} IN
  IF Len(s) < 8 \/ ~AllDigits(SubSeq(s, 1, 4)) \/ s[5] # "-" \/ ks = {} THEN None
  ELSE LET k == CHOOSE k \in ks : TRUE
           y == NumVal(SubSeq(s, 1, 4))
           m == NumVal(SubSeq(s, 6, k - 1))
           ds == SubSeq(s, k + 1, Len(s))
           dd == IF Len(ds) = 2 /\ ds[1] = " " THEN Tail(ds) ELSE ds
       IN IF Len(ds) \in 1..2 /\ AllDigits(dd) /\ y >= 1 /\ m \in 1..12
             /\ NumVal(dd) >= 1 /\ NumVal(dd) <= DaysInMonth(y, m)
          THEN Date(y, m, NumVal(dd))
          ELSE None

\* the comparison of times reversed
TimeLess_reversed(a, b) == b.hour < a.hour \/ (a.hour = b.hour /\ b.minute < a.minute)

\* a < b on datetime.time values (hour, minute)
TimeLess(a, b) == a.hour < b.hour \/ (a.hour = b.hour /\ a.minute < b.minute)

\* a < b on datetime.date values
DateLess(a, b) ==
  \/ a.year < b.year
  \/ a.year = b.year /\ a.month < b.month
  \/ a.year = b.year /\ a.month = b.month /\ a.day < b.day

\* the test of line 158 without the station
all_present_nostation(sd, sh, st, dt) == sd # <<>> /\ sh # <<>> /\ dt # <<>>

\* the test of line 158: all four trimmed fields are non-empty
all_present(sd, sh, st, dt) == sd # <<>> /\ sh # <<>> /\ st # <<>> /\ dt # <<>>

\* one iteration of the scan over rows; idx keeps the dict's insertion order.
\* A datetime.time is always true (Python 3.5 and later), so `if t` tests t for None.
index_step(idx, r) ==
  LET sd == field(r, "shiftDate")
      sh == field(r, "shift")
      st == field(r, "station")
      dt == field(r, "donetime")
  IN IF ~all_present(sd, sh, st, dt) THEN idx
     ELSE LET t == parse_hhmm(dt)
              pos == {i \in 1..Len(idx) : idx[i].shiftDate = sd /\ idx[i].shift = sh /\ idx[i].station = st}
          IN IF pos = {}
             THEN Append(idx, [shiftDate |-> sd, shift |-> sh, station |-> st, last_time |-> t])
             ELSE LET i == CHOOSE i \in pos : TRUE IN
                  IF t # None /\ (idx[i].last_time = None \/ TimeLess(idx[i].last_time, t))
                  THEN [idx EXCEPT ![i].last_time = t]
                  ELSE idx

RECURSIVE index_scan(_, _)
index_scan(idx, rs) == IF rs = <<>> THEN idx ELSE index_scan(index_step(idx, Head(rs)), Tail(rs))

sort_key(x) ==
  LET p == strptime_Ymd(x.shiftDate)
      d == IF p # None THEN p ELSE Date(1, 1, 1)
      t == IF x.last_time # None THEN x.last_time ELSE Time(0, 0)
  IN <<d, t>>

\* sort key compared on last_time alone
KeyLess_timeonly(a, b) == TimeLess(a[2], b[2])

\* a < b on the (date, time) tuples of sort_key
KeyLess(a, b) == DateLess(a[1], b[1]) \/ (a[1] = b[1] /\ TimeLess(a[2], b[2]))

\* sorted(xs, key=sort_key, reverse=True): stable, descending
RECURSIVE sorted_desc(_)
sorted_desc(xs) ==
  IF xs = <<>> THEN <<>>
  ELSE LET out == sorted_desc(SubSeq(xs, 1, Len(xs) - 1))
           x == xs[Len(xs)]
           n == Cardinality({i \in 1..Len(out) : ~KeyLess(sort_key(out[i]), sort_key(x))})
       IN SubSeq(out, 1, n) \o <<x>> \o SubSeq(out, n + 1, Len(out))

build_shift_index(rs) == sorted_desc(index_scan(<<>>, rs))

-----------------------------------------------------------------------------
(* DATA PROCESSING: build_report *)

\* the filter without the comparison of shift
filtered_anyshift(rs, sd, sh, st) ==
  SelectSeq(rs, LAMBDA r : field(r, "shiftDate") = sd /\ field(r, "station") = st)

filtered(rs, sd, sh, st) ==
  SelectSeq(rs, LAMBDA r : field(r, "shiftDate") = sd /\ field(r, "shift") = sh /\ field(r, "station") = st)

EmptyHeader == [operator |-> <<>>, product |-> <<>>, productionOrder |-> <<>>]

\* report_step keeping the first value of an item at a donetime, not the last
report_step_firstwins(acc, r) ==
  LET donetime == field(r, "donetime")
      itemname == field(r, "itemname")
  IN IF donetime = <<>> \/ itemname \notin ALLOWED_ITEMS THEN acc
     ELSE LET seen == donetime \in DOMAIN acc.submissions
              old == IF seen THEN acc.submissions[donetime] ELSE <<>>
              new == old @@ (itemname :> normalize_value(get(r, "itemresult")))
          IN [order |-> IF seen THEN acc.order ELSE Append(acc.order, donetime),
              submissions |-> (donetime :> new) @@ acc.submissions,
              meta |-> IF donetime \in DOMAIN acc.meta THEN acc.meta
                       ELSE (donetime :> [operator |-> field(r, "operator"),
                                          product |-> field(r, "productproduced"),
                                          productionOrder |-> field(r, "productionOrder")]) @@ acc.meta]

\* one iteration of the loop over filtered; acc.order is the insertion order
\* of the keys of submissions
report_step(acc, r) ==
  LET donetime == field(r, "donetime")
      itemname == field(r, "itemname")
  IN IF donetime = <<>> \/ itemname \notin ALLOWED_ITEMS THEN acc
     ELSE LET seen == donetime \in DOMAIN acc.submissions
              old == IF seen THEN acc.submissions[donetime] ELSE <<>>
              new == (itemname :> normalize_value(get(r, "itemresult"))) @@ old
          IN [order |-> IF seen THEN acc.order ELSE Append(acc.order, donetime),
              submissions |-> (donetime :> new) @@ acc.submissions,
              meta |-> IF donetime \in DOMAIN acc.meta THEN acc.meta
                       ELSE (donetime :> [operator |-> field(r, "operator"),
                                          product |-> field(r, "productproduced"),
                                          productionOrder |-> field(r, "productionOrder")]) @@ acc.meta]

RECURSIVE report_scan(_, _)
report_scan(acc, rs) == IF rs = <<>> THEN acc ELSE report_scan(report_step(acc, Head(rs)), Tail(rs))

\* submissions.get(t, {}).get(item, "")
cell(submissions, t, item) ==
  IF t \in DOMAIN submissions /\ item \in DOMAIN submissions[t] THEN submissions[t][item] ELSE <<>>

\* report_matrix giving a row only the values its item has
report_matrix_ragged(submissions, columns) ==
  [i \in 1..Len(ORDERED_ITEMS) |->
     [label |-> ORDERED_ITEMS[i],
      values |-> LET have == SelectSeq(columns, LAMBDA t : t \in DOMAIN submissions /\ ORDERED_ITEMS[i] \in DOMAIN submissions[t])
                 IN [j \in 1..Len(have) |-> submissions[have[j]][ORDERED_ITEMS[i]]]]]

\* the rows appended to matrix, one per item of ORDERED_ITEMS
report_matrix(submissions, columns) ==
  [i \in 1..Len(ORDERED_ITEMS) |->
     [label |-> ORDERED_ITEMS[i],
      values |-> [j \in 1..Len(columns) |-> cell(submissions, columns[j], ORDERED_ITEMS[i])]]]

\* report_header taking the first column, not the last
report_header_first(meta, columns) ==
  IF columns # <<>> /\ columns[1] \in DOMAIN meta THEN meta[columns[1]] ELSE EmptyHeader

\* header = meta.get(columns[-1], header) when columns is not empty
report_header(meta, columns) ==
  IF columns # <<>> /\ columns[Len(columns)] \in DOMAIN meta
  THEN meta[columns[Len(columns)]] ELSE EmptyHeader

build_report(rs, sd, sh, st) ==
  LET acc == report_scan([order |-> <<>>, submissions |-> <<>>, meta |-> <<>>], filtered(rs, sd, sh, st))
      columns == sort_donetime_list(acc.order, sh)
  IN [columns |-> columns,
      matrix |-> report_matrix(acc.submissions, columns),
      header |-> report_header(acc.meta, columns),
      shiftDate |-> sd, shift |-> sh, station |-> st]

-----------------------------------------------------------------------------
(* Inputs *)

Absent == [t |-> "absent"]

\* a raw row carrying the fields whose value is not Absent
Row(sd, sh, st, dt, it, res, op) ==
  LET full == [shiftDate |-> sd, shift |-> sh, station |-> st, donetime |-> dt,
               itemname |-> it, itemresult |-> res, operator |-> op,
               productproduced |-> op, productionOrder |-> op]
  IN [f \in {g \in DOMAIN full : full[g] # Absent} |-> full[f]]

D1 == <<"2","0","2","4","-","0","1","-","0","1">>

D2 == <<"2","0","2","4","-","0","1","-","0","2">>

D2short == <<"2","0","2","4","-","1","-","2">>

NA == <<"N","/","A">>

T(a, b, c, d) == <<a, b, ":", c, d>>

IndexRows ==
  {Row(Str(sd), Str(<<"A">>), Str(<<"S","1">>), Str(dt), Absent, Absent, Absent) :
      sd \in {D1, D2}, dt \in {T("0","8","0","0"), T("0","9","3","0")}}
  \cup {Row(Str(NA), Str(<<"A">>), Str(<<"S","1">>), Str(T("0","8","0","0")), Absent, Absent, Absent),
        Row(Str(D1), Str(<<"A">>), Str(<<"S","1">>), Str(<<"a","b","c">>), Absent, Absent, Absent),
        Row(Str(D1), Str(<<"A">>), Str(<<"S","1">>), Str(T("0","0","0","0")), Absent, Absent, Absent),
        Row(Str(D2short), Str(<<"A">>), Str(<<"S","1">>), Str(T("0","8","0","0")), Absent, Absent, Absent),
        Row(Str(D1), Str(<<"A">>), Absent, Str(T("2","3","5","9")), Absent, Absent, Absent),
        Row(Str(D1), Str(<<"A">>), Str(<<"S","1">>), Str(<<>>), Absent, Absent, Absent),
        Row(Str(<<" ">> \o D1 \o <<" ">>), Str(<<"A">>), Str(<<"S","1">>), Str(<<"1","0",":","1","5"," ">>), Absent, Absent, Absent)}

Item1 == ORDERED_ITEMS[1]

Item2 == ORDERED_ITEMS[2]

G == <<"Γ">>

S1 == <<"S","1">>

ReportRows ==
  {Row(Str(D1), Str(G), Str(S1), Str(dt), Str(Item1), Str(<<"7","2",",","5">>), Str(<<"J">>)) :
      dt \in {T("0","6","0","0"), T("2","3","0","0"), T("0","1","0","0")}}
  \cup {Row(Str(D1), Str(G), Str(S1), Str(T("0","6","0","0")), Str(Item1), Str(<<"-">>), Str(<<"K">>)),
        Row(Str(D1), Str(G), Str(S1), Str(T("2","3","0","0")), Str(<<"x">>), Num(7), Str(<<"L">>)),
        Row(Str(D1), Str(G), Str(S1), Str(<<" ">> \o T("2","3","0","0")), Str(Item2 \o <<" ">>), Num(7), Absent),
        Row(Str(D1), Str(G), Str(S1), Absent, Str(Item1), Str(<<"1">>), Str(<<"J">>)),
        Row(Str(D1), Str(G), Str(S1), Str(<<"a","b","c">>), Str(Item1), None, Str(<<" ","M"," ">>)),
        Row(Str(D1), Str(<<"X">>), Str(S1), Str(T("2","3","0","0")), Str(Item1), Str(<<"1">>), Str(<<"J">>)),
        Row(Str(D1), Str(<<"X">>), Str(S1), Str(T("0","6","0","0")), Str(Item2), Str(<<"2">>), Num(0))}

Alphabet == {" ", ",", "-", "N", "/", "A", "n", "a", "3"}

RECURSIVE Strings(_)
Strings(n) == IF n = 0 THEN {<<>>} ELSE LET S == Strings(n - 1) IN S \cup {Append(s, c) : s \in {x \in S : Len(x) = n - 1}, c \in Alphabet}

RawValues ==
  {None, Num(0), Num(35)}
  \cup {Str(s) : s \in Strings(MaxLen)}
  \cup {Str(<<" ","3",",","5"," ">>), Str(<<" ","N","/","A"," ">>), Str(<<"N","/","a">>), Str(<<"3",",",",","5">>)}

RECURSIVE Batches(_, _)
Batches(R, n) == IF n = 0 THEN {<<>>} ELSE LET B == Batches(R, n - 1) IN B \cup {Append(b, r) : b \in {x \in B : Len(x) = n - 1}, r \in R}

-----------------------------------------------------------------------------
(* State machine: each function is applied once to the inputs *)

InitResults ==
  /\ shifts = <<>>
  /\ report = [columns |-> <<>>, matrix |-> <<>>, header |-> EmptyHeader,
               shiftDate |-> <<>>, shift |-> <<>>, station |-> <<>>]
  /\ normalized = <<>>
  /\ returned = {}

InitIndex ==
  /\ rows \in Batches(IndexRows, MaxRows)
  /\ shiftDate = D1 /\ shiftName = <<"A">> /\ station = S1
  /\ v = None
  /\ InitResults

InitReport ==
  /\ rows \in Batches(ReportRows, MaxRows)
  /\ shiftDate = D1 /\ shiftName \in {G, <<"X">>} /\ station = S1
  /\ v = None
  /\ InitResults

InitNormalize ==
  /\ rows = <<>>
  /\ shiftDate = D1 /\ shiftName = <<"A">> /\ station = S1
  /\ v \in RawValues
  /\ InitResults

BuildShiftIndex ==
  /\ "build_shift_index" \notin returned
  /\ shifts' = build_shift_index(rows)
  /\ returned' = returned \cup {"build_shift_index"}
  /\ UNCHANGED <<rows, shiftDate, shiftName, station, v, report, normalized>>

BuildReport ==
  /\ "build_report" \notin returned
  /\ report' = build_report(rows, shiftDate, shiftName, station)
  /\ returned' = returned \cup {"build_report"}
  /\ UNCHANGED <<rows, shiftDate, shiftName, station, v, shifts, normalized>>

NormalizeValue ==
  /\ "normalize_value" \notin returned
  /\ normalized' = normalize_value(v)
  /\ returned' = returned \cup {"normalize_value"}
  /\ UNCHANGED <<rows, shiftDate, shiftName, station, v, shifts, report>>

Next == BuildShiftIndex \/ BuildReport \/ NormalizeValue

Spec == InitReport /\ [][Next]_vars

SpecIndex == InitIndex /\ [][Next]_vars

SpecNormalize == InitNormalize /\ [][Next]_vars

-----------------------------------------------------------------------------
(* Properties *)

Matches(r) == field(r, "shiftDate") = shiftDate /\ field(r, "shift") = shiftName /\ field(r, "station") = station

Survives(r) == Matches(r) /\ field(r, "donetime") # <<>> /\ field(r, "itemname") \in ALLOWED_ITEMS

Valid(r) == \A f \in {"shiftDate", "shift", "station", "donetime"} : field(r, f) # <<>>

KeyOf(r) == <<field(r, "shiftDate"), field(r, "shift"), field(r, "station")>>

GroupKey(g) == <<g.shiftDate, g.shift, g.station>>

Triple(r) == [operator |-> field(r, "operator"), product |-> field(r, "productproduced"),
              productionOrder |-> field(r, "productionOrder")]

MinuteOf(tstr) == LET p == parse_hhmm(tstr) IN IF p = None THEN 0 ELSE p.hour * 60 + p.minute

DateNumber(sd) == LET p == strptime_Ymd(sd) IN IF p = None THEN 10101 ELSE p.year * 10000 + p.month * 100 + p.day

ReportDone == "build_report" \in returned

IndexDone == "build_shift_index" \in returned

\* C1: the matrix of build_report has one row per item of ORDERED_ITEMS, in
\* catalog order, every row has exactly len(columns) values, and when no
\* record survives the filtering columns and every row's values are empty.
C1_MatrixShape ==
  ReportDone =>
    /\ Len(report.matrix) = Len(ORDERED_ITEMS)
    /\ \A i \in 1..Len(report.matrix) :
         /\ report.matrix[i].label = ORDERED_ITEMS[i]
         /\ Len(report.matrix[i].values) = Len(report.columns)
    /\ (~\E k \in 1..Len(rows) : Survives(rows[k])) =>
         /\ report.columns = <<>>
         /\ \A i \in 1..Len(report.matrix) : report.matrix[i].values = <<>>

\* a report of two columns in which some row has a value in one column only
C1_Witness ==
  /\ ReportDone
  /\ Len(report.columns) = 2
  /\ \E i \in 1..Len(report.matrix) :
       report.matrix[i].values[1] # <<>> /\ report.matrix[i].values[2] = <<>>

\* C2: columns is duplicate-free, holds exactly the trimmed donetimes of the
\* surviving records, and is ordered by non-decreasing
\* (donetime minutes - shift start minutes) mod 1440, with 00:00 for an unknown
\* shift label and for an unparsable donetime.
C2_ColumnsSorted ==
  ReportDone =>
    LET cols == report.columns
        start == IF shiftName \in DOMAIN SHIFT_START THEN MinuteOf(SHIFT_START[shiftName]) ELSE 0
        rel(t) == (MinuteOf(t) - start) % 1440
    IN /\ \A i, j \in 1..Len(cols) : i # j => cols[i] # cols[j]
       /\ {cols[i] : i \in 1..Len(cols)} = {field(rows[k], "donetime") : k \in {n \in 1..Len(rows) : Survives(rows[n])}}
       /\ \A i \in 1..(Len(cols) - 1) : rel(cols[i]) <= rel(cols[i + 1])

\* shift "Γ": the times 06:00, 23:00, 01:00 given in that order come out as 23:00, 01:00, 06:00
C2_Witness ==
  /\ ReportDone
  /\ shiftName = G
  /\ Len(rows) = 3
  /\ field(rows[1], "donetime") = T("0","6","0","0")
  /\ field(rows[2], "donetime") = T("2","3","0","0")
  /\ field(rows[3], "donetime") = T("0","1","0","0")
  /\ report.columns = <<T("2","3","0","0"), T("0","1","0","0"), T("0","6","0","0")>>

\* C3 as stated: the header is the triple of the first record matching the
\* selector whose trimmed donetime is the last column, whether or not its
\* itemname is in the catalog (all-empty when columns is empty).
C3_HeaderFirstMatching ==
  ReportDone =>
    IF report.columns = <<>> THEN report.header = EmptyHeader
    ELSE LET last == report.columns[Len(report.columns)]
             M == {k \in 1..Len(rows) : Matches(rows[k]) /\ field(rows[k], "donetime") = last}
         IN M # {} /\ report.header = Triple(rows[CHOOSE k \in M : \A n \in M : k <= n])

\* C3 amended: the header is the triple of the first surviving record (matching
\* the selector, with a catalog itemname) whose trimmed donetime is the last
\* column, and the all-empty triple when columns is empty.
C3_HeaderFirstSurviving ==
  ReportDone =>
    IF report.columns = <<>> THEN report.header = EmptyHeader
    ELSE LET last == report.columns[Len(report.columns)]
             M == {k \in 1..Len(rows) : Survives(rows[k]) /\ field(rows[k], "donetime") = last}
         IN M # {} /\ report.header = Triple(rows[CHOOSE k \in M : \A n \in M : k <= n])

\* two columns, and two surviving records with different triples at the last one
C3_Witness ==
  /\ ReportDone
  /\ Len(report.columns) >= 2
  /\ \E k, n \in 1..Len(rows) :
       /\ k < n
       /\ Survives(rows[k]) /\ Survives(rows[n])
       /\ field(rows[k], "donetime") = report.columns[Len(report.columns)]
       /\ field(rows[n], "donetime") = report.columns[Len(report.columns)]
       /\ Triple(rows[k]) # Triple(rows[n])
       /\ report.header = Triple(rows[k])

\* C4: the last_time of a group is the maximum parsed donetime among the valid
\* records of its key, and None exactly when none of them parses, whatever the
\* order of the records.
C4_LastTimeIsMax ==
  IndexDone =>
    \A i \in 1..Len(shifts) :
      LET g == shifts[i]
          P == {parse_hhmm(field(rows[k], "donetime")) :
                  k \in {n \in 1..Len(rows) : Valid(rows[n]) /\ KeyOf(rows[n]) = GroupKey(g)}} \ {None}
      IN IF P = {} THEN g.last_time = None
         ELSE /\ g.last_time \in P
              /\ \A p \in P : p.hour * 60 + p.minute <= g.last_time.hour * 60 + g.last_time.minute

\* a group whose records come as: unparsable, a time, an earlier time
C4_Witness ==
  /\ IndexDone
  /\ Len(rows) = 3
  /\ \A k \in 1..3 : Valid(rows[k]) /\ KeyOf(rows[k]) = KeyOf(rows[1])
  /\ parse_hhmm(field(rows[1], "donetime")) = None
  /\ parse_hhmm(field(rows[2], "donetime")) = Time(9, 30)
  /\ parse_hhmm(field(rows[3], "donetime")) = Time(8, 0)
  /\ Len(shifts) = 1 /\ shifts[1].last_time = Time(9, 30)

\* C5: the groups come out in descending order of (date of shiftDate,
\* last_time), an unparsable shiftDate counting as the earliest date and an
\* absent last_time as the earliest time of day.
C5_IndexDescending ==
  IndexDone =>
    \A i, j \in 1..Len(shifts) :
      i < j =>
        LET di == DateNumber(shifts[i].shiftDate)
            dj == DateNumber(shifts[j].shiftDate)
            ti == IF shifts[i].last_time = None THEN 0 ELSE shifts[i].last_time.hour * 60 + shifts[i].last_time.minute
            tj == IF shifts[j].last_time = None THEN 0 ELSE shifts[j].last_time.hour * 60 + shifts[j].last_time.minute
        IN di > dj \/ (di = dj /\ ti >= tj)

\* a group of 2024-01-02 with an earlier last_time precedes a group of
\* 2024-01-01, found after it in the rows, and a group of unparsable date is last
C5_Witness ==
  /\ IndexDone
  /\ Len(shifts) = 3
  /\ field(rows[1], "shiftDate") = NA
  /\ field(rows[2], "shiftDate") = D1
  /\ shifts[1].shiftDate = D2 /\ shifts[1].last_time = Time(8, 0)
  /\ shifts[2].shiftDate = D1 /\ shifts[2].last_time = Time(9, 30)
  /\ shifts[3].shiftDate = NA

\* C6: the index has exactly one group per distinct trimmed key of the valid
\* records and no other, and records missing one of the four fields change
\* nothing: the index equals the index of the valid records alone.
C6_GroupsAreValidKeys ==
  IndexDone =>
    /\ \A i, j \in 1..Len(shifts) : i # j => GroupKey(shifts[i]) # GroupKey(shifts[j])
    /\ {GroupKey(shifts[i]) : i \in 1..Len(shifts)} = {KeyOf(rows[k]) : k \in {n \in 1..Len(rows) : Valid(rows[n])}}
    /\ shifts = build_shift_index(SelectSeq(rows, Valid))

\* rows with a valid record, a record without station and a record without
\* donetime: one group
C6_Witness ==
  /\ IndexDone
  /\ Len(rows) = 3
  /\ Valid(rows[1])
  /\ "station" \notin DOMAIN rows[2]
  /\ field(rows[3], "donetime") = <<>>
  /\ Len(shifts) = 1

\* C7: normalize_value(v) is "" for None and for a trimmed string form "-",
\* "N/A" or "n/a", and otherwise the trimmed string form with every comma
\* replaced by a period; the result never contains a comma.
C7_Normalize ==
  "normalize_value" \in returned =>
    /\ \A i \in 1..Len(normalized) : normalized[i] # ","
    /\ IF v = None THEN normalized = <<>>
       ELSE LET s == strip(str(v)) IN
            IF s = <<"-">> \/ s = <<"N","/","A">> \/ s = <<"n","/","a">> THEN normalized = <<>>
            ELSE /\ Len(normalized) = Len(s)
                 /\ \A i \in 1..Len(s) : normalized[i] = (IF s[i] = "," THEN "." ELSE s[i])

\* " 3,5 " gives "3.5"
C7_Witness ==
  /\ "normalize_value" \in returned
  /\ v = Str(<<" ","3",",","5"," ">>)
  /\ normalized = <<"3",".","5">>

\* C9: a cell is normalize_value(itemresult) of the last record matching the
\* selector with that trimmed donetime and trimmed itemname, "" when there is
\* none, and records with an itemname outside the catalog change no cell.
C9_CellLastWrite ==
  ReportDone =>
    /\ \A i \in 1..Len(report.matrix) : \A j \in 1..Len(report.columns) :
         LET M == {k \in 1..Len(rows) : /\ Matches(rows[k])
                                        /\ field(rows[k], "donetime") = report.columns[j]
                                        /\ field(rows[k], "itemname") = ORDERED_ITEMS[i]}
         IN j \in DOMAIN report.matrix[i].values
            /\ report.matrix[i].values[j] =
                 (IF M = {} THEN <<>>
                  ELSE normalize_value(get(rows[CHOOSE k \in M : \A n \in M : n <= k], "itemresult")))
    /\ report.matrix =
         build_report(SelectSeq(rows, LAMBDA r : field(r, "itemname") \in ALLOWED_ITEMS),
                      shiftDate, shiftName, station).matrix

\* a cell written twice with different values keeps the second, in a batch
\* that also holds a record outside the catalog
C9_Witness ==
  /\ ReportDone
  /\ \E k \in 1..Len(rows) : Matches(rows[k]) /\ field(rows[k], "donetime") # <<>> /\ field(rows[k], "itemname") \notin ALLOWED_ITEMS
  /\ \E k, n \in 1..Len(rows) :
       /\ k < n
       /\ Survives(rows[k]) /\ Survives(rows[n])
       /\ field(rows[k], "donetime") = field(rows[n], "donetime")
       /\ field(rows[k], "itemname") = Item1 /\ field(rows[n], "itemname") = Item1
       /\ normalize_value(get(rows[k], "itemresult")) = <<"7","2",".","5">>
       /\ normalize_value(get(rows[n], "itemresult")) = <<>>
       /\ report.matrix[1].values = << <<>> >>

\* C10: for a selector of non-empty trimmed components, a report with columns
\* implies that the index has a group with the selector as its key.
C10_ReportImpliesIndexed ==
  (ReportDone /\ IndexDone) =>
    ((/\ shiftDate # <<>> /\ strip(shiftDate) = shiftDate
      /\ shiftName # <<>> /\ strip(shiftName) = shiftName
      /\ station # <<>> /\ strip(station) = station
      /\ report.columns # <<>>)
     => \E i \in 1..Len(shifts) : GroupKey(shifts[i]) = <<shiftDate, shiftName, station>>)

\* a report with columns for a selector that is one of two groups of the index
C10_Witness ==
  /\ ReportDone /\ IndexDone
  /\ report.columns # <<>>
  /\ Len(shifts) = 2
  /\ \E i \in 1..Len(shifts) : GroupKey(shifts[i]) = <<shiftDate, shiftName, station>>

Lower(s) == [i \in 1..Len(s) |-> IF s[i] = "N" THEN "n" ELSE IF s[i] = "A" THEN "a" ELSE s[i]]

IsPlaceholder(x) == x.t = "str" /\ Lower(strip(x.s)) \in {<<>>, <<"-">>, <<"n","/","a">>}

Without(r, f) == [g \in DOMAIN r \ {f} |-> r[g]]

\* C8: a field whose trimmed string form is "", "-" or "N/A" in any letter
\* case is handled as if it were missing: build_shift_index and build_report
\* give the same outputs for the batch with that field removed from the record.
C8_PlaceholderAsMissing ==
  \A k \in 1..Len(rows) : \A f \in DOMAIN rows[k] :
    IsPlaceholder(rows[k][f]) =>
      LET rs == [rows EXCEPT ![k] = Without(rows[k], f)] IN
      /\ IndexDone => shifts = build_shift_index(rs)
      /\ ReportDone => report = build_report(rs, shiftDate, shiftName, station)

====
